---- MODULE Spec2Model ----
(***************************************************************************)
(* AscentPulse API (src/main.py): a FastAPI service in front of four       *)
(* Postgres tables.  Every endpoint is one handler; a handler is one       *)
(* action.  The connection is opened with autocommit=True, so every        *)
(* statement a handler executes is committed on its own.                   *)
(*                                                                         *)
(* Conventions.                                                            *)
(*   Optional values (Python None, SQL NULL): <<>> is None, <<x>> is x.    *)
(*   Decimal columns are integers in hundredths (0.63 is 63, 78.4 is       *)
(*   7840), except funding_8h, which is in thousandths.                    *)
(*   A date is its day of the month in a fixed month; DateStr prints it.   *)
(*   A timestamp is a record [day, hour, minute, second, micro].           *)
(*   A table is the sequence of its rows in insertion order.               *)
(***************************************************************************)
EXTENDS Integers, Sequences, FiniteSets, TLC

VARIABLES
    API_KEY,            \* os.getenv("API_KEY"): None or the secret
    DB_URL,             \* os.getenv("DATABASE_URL"), read once at import
    now,                \* the host clock
    market_state_daily, \* RegimeSnapshot rows
    score_daily,        \* ScoreEntry rows
    signal_4h,          \* Signal rows
    derivs_hourly,      \* DerivativesSnapshot rows
    resp,               \* the last request and its response
    jobsRun             \* job requests that reached the database so far

vars == <<API_KEY, DB_URL, now, market_state_daily, score_daily, signal_4h,
          derivs_hourly, resp, jobsRun>>

tables == <<market_state_daily, score_daily, signal_4h, derivs_hourly>>

config == <<API_KEY, DB_URL>>

----------------------------------------------------------------------------
\* Bounds of the model.

\* The clock runs over its first MaxTick sampled instants.
MaxTick == 3

\* At most MaxJobs job requests reach the database in one run.
MaxJobs == 2

\* The number of database contents a deployment may start from (Seed).
NumSeeds == 2

----------------------------------------------------------------------------
\* Optional values.

None == <<>>

Some(x) == <<x>>

Val(o) == o[1]

----------------------------------------------------------------------------
\* The clock.  Two instants are sampled in every day: they share the hour and
\* differ in the minute, and both carry microseconds.

Instant(i) ==
    [day    |-> 1 + ((i - 1) \div 2),
     hour   |-> 9,
     minute |-> IF i % 2 = 1 THEN 5 ELSE 40,
     second |-> 7,
     micro  |-> IF i % 2 = 1 THEN 250000 ELSE 500000]

\* dt.date.today()
Today == now.day

\* dt.datetime.utcnow().replace(microsecond=0)
Trigger4hNow == [now EXCEPT !.micro = 0]

\* dt.datetime.utcnow().replace(minute=10, second=0, microsecond=0)
DerivsNow == [now EXCEPT !.minute = 10, !.second = 0, !.micro = 0]

\* Timestamps compare field by field, the day first.
TsLess(a, b) ==
    LET ka == <<a.day, a.hour, a.minute, a.second, a.micro>>
        kb == <<b.day, b.hour, b.minute, b.second, b.micro>>
    IN  \E k \in 1..5 : /\ ka[k] < kb[k]
                        /\ \A j \in 1..(k - 1) : ka[j] = kb[j]

Pad2(n) == IF n < 10 THEN "0" \o ToString(n) ELSE ToString(n)

Pad6(n) ==
    IF n < 10 THEN "00000" \o ToString(n)
    ELSE IF n < 100 THEN "0000" \o ToString(n)
    ELSE IF n < 1000 THEN "000" \o ToString(n)
    ELSE IF n < 10000 THEN "00" \o ToString(n)
    ELSE IF n < 100000 THEN "0" \o ToString(n)
    ELSE ToString(n)

\* str(asof) of a datetime.date
DateStr(d) == "2025-01-" \o Pad2(d)

\* ts.isoformat() of a datetime.datetime
IsoFormat(ts) ==
    DateStr(ts.day) \o "T" \o Pad2(ts.hour) \o ":" \o Pad2(ts.minute) \o ":"
        \o Pad2(ts.second)
        \o (IF ts.micro = 0 THEN "" ELSE "." \o Pad6(ts.micro))

\* float(x) if x is not None else None
FloatOrNone(x) == x

----------------------------------------------------------------------------
\* Requests.

Keys == {"k1", "k2"}

\* The Authorization header of a request: absent, or one of a few values.
Headers ==
    {None} \cup {Some("Bearer " \o k) : k \in Keys} \cup {Some("k1")}

\* What goes wrong at the database during a request: nothing (None), the
\* connect (Some(0)), or the k-th statement the handler executes (Some(k)).
Faults(n) == {None} \cup {Some(k) : k \in 0..n}

\* Committed as it would be if the loop ran in one transaction: a failure
\* rolls back the statements before it.
CommittedInTransaction(fault, n) == IF fault = None THEN n ELSE 0

\* The number of statements, out of n, that are executed and committed.
Committed(fault, n) == IF fault = None THEN n ELSE Val(fault) - 1

NoReq == [endpoint |-> "none", authorization |-> None, limit |-> None]

Req(endpoint, authorization, limit) ==
    [endpoint |-> endpoint, authorization |-> authorization, limit |-> limit]

\* A response: the request, the HTTP status, the JSON body, whether the
\* handler called psycopg.connect, and the database fault it met.
Reply(req, status, body, opened, fault) ==
    [req |-> req, status |-> status, body |-> body, opened |-> opened,
     fault |-> fault]

\* No exchange is under way: the last response has reached its client.
NoResp == Reply(NoReq, 0, [ok |-> TRUE], FALSE, None)

Unauthorized == [detail |-> "Unauthorized"]

NotConfigured == [detail |-> "DATABASE_URL not set"]

ServerError == [detail |-> "Internal Server Error"]

\* check_key as it would be if it tested only that a header is present.
check_key_any_header(auth) ==
    IF API_KEY = None THEN TRUE
    ELSE auth # None

\* check_key returns (TRUE) or raises HTTPException(401) (FALSE).
check_key(auth) ==
    IF API_KEY = None THEN TRUE
    ELSE auth = Some("Bearer " \o Val(API_KEY))

\* db_conn raises HTTPException(500) when DB_URL is None or empty, and
\* otherwise connects, which the database fault Some(0) makes fail.
db_conn(fault) ==
    IF DB_URL = None \/ Val(DB_URL) = "" THEN "not_configured"
    ELSE IF fault = Some(0) THEN "connect_failed"
    ELSE "connected"

----------------------------------------------------------------------------
\* Sequences.

Range(s) == {s[i] : i \in DOMAIN s}

Min(a, b) == IF a < b THEN a ELSE b

\* SQL "limit n" on an ordered result, n >= 0.
Limit(s, n) == SubSeq(s, 1, Min(n, Len(s)))

----------------------------------------------------------------------------
\* GET / and GET /health

Root ==
    /\ resp' = Reply(Req("GET /", None, None), 200,
                     [ok |-> TRUE, service |-> "ascentpulse-api"], FALSE, None)
    /\ UNCHANGED <<config, now, tables, jobsRun>>

\* Health as it would be if it caught psycopg.Error only: the HTTPException
\* of db_conn propagates.
HealthCatchesDbErrorsOnly ==
    \E fault \in Faults(1) :
        LET c     == db_conn(fault)
            db_ok == c = "connected" /\ fault = None
            req   == Req("GET /health", None, None)
        IN  /\ IF c = "not_configured"
               THEN resp' = Reply(req, 500, NotConfigured, FALSE, None)
               ELSE resp' = Reply(req, 200, [status |-> "healthy", db |-> db_ok],
                                  TRUE, fault)
            /\ UNCHANGED <<config, now, tables, jobsRun>>

\* "except Exception" catches the HTTPException of db_conn as well as the
\* errors of psycopg.
Health ==
    \E fault \in Faults(1) :
        LET c     == db_conn(fault)
            db_ok == c = "connected" /\ fault = None
        IN  /\ resp' = Reply(Req("GET /health", None, None), 200,
                             [status |-> "healthy", db |-> db_ok],
                             c # "not_configured",
                             IF c = "not_configured" THEN None ELSE fault)
            /\ UNCHANGED <<config, now, tables, jobsRun>>

----------------------------------------------------------------------------
\* How a handler that uses the database ends when it raises.

\* check_key raised: 401, before db_conn is reached.
Rejected(req) == resp' = Reply(req, 401, Unauthorized, FALSE, None)

\* db_conn raised HTTPException(500): no connection was attempted.
Misconfigured(req) == resp' = Reply(req, 500, NotConfigured, FALSE, None)

\* psycopg raised, at the connect or at a statement: nothing catches it.
Crashed(req, fault) == resp' = Reply(req, 500, ServerError, TRUE, fault)

Returned(req, body) == resp' = Reply(req, 200, body, TRUE, None)

----------------------------------------------------------------------------
\* POST /jobs/hygiene and GET /regime/today

HygieneRow(today) ==
    [asof |-> today, btc_trend |-> "UP", eth_trend |-> "UP",
     breadth_pct |-> 6200, stables_flow_pct |-> -40,
     regime |-> "RISK_ON", confidence |-> Some(63)]

\* UpsertRegime as it would be without the "on conflict" clause (and without
\* the key): a plain insert.
InsertRegime(tbl, new) == Append(tbl, new)

\* insert into market_state_daily ... on conflict (asof) do update set ...
UpsertRegime(tbl, new) ==
    IF \E i \in DOMAIN tbl : tbl[i].asof = new.asof
    THEN [i \in DOMAIN tbl |->
            IF tbl[i].asof = new.asof
            THEN [tbl[i] EXCEPT !.btc_trend = new.btc_trend,
                                !.eth_trend = new.eth_trend,
                                !.breadth_pct = new.breadth_pct,
                                !.stables_flow_pct = new.stables_flow_pct,
                                !.regime = new.regime,
                                !.confidence = new.confidence]
            ELSE tbl[i]]
    ELSE Append(tbl, new)

\* JobHygiene as it would be if the connection were opened before the key is
\* checked.
JobHygieneConnectsFirst ==
    \E authorization \in Headers, fault \in Faults(1) :
        LET req == Req("POST /jobs/hygiene", authorization, None)
            c   == db_conn(fault)
        IN  /\ IF c = "not_configured"
               THEN Misconfigured(req) /\ UNCHANGED <<tables, jobsRun>>
               ELSE IF c = "connect_failed"
               THEN Crashed(req, fault) /\ UNCHANGED <<tables, jobsRun>>
               ELSE IF ~check_key(authorization)
               THEN /\ resp' = Reply(req, 401, Unauthorized, TRUE, None)
                    /\ UNCHANGED <<tables, jobsRun>>
               ELSE /\ jobsRun < MaxJobs
                    /\ jobsRun' = jobsRun + 1
                    /\ market_state_daily' =
                          IF Committed(fault, 1) = 1
                          THEN UpsertRegime(market_state_daily, HygieneRow(Today))
                          ELSE market_state_daily
                    /\ IF fault = None
                       THEN Returned(req, [ok |-> TRUE, job |-> "hygiene"])
                       ELSE Crashed(req, fault)
                    /\ UNCHANGED <<score_daily, signal_4h, derivs_hourly>>
            /\ UNCHANGED <<config, now>>

JobHygiene ==
    \E authorization \in Headers, fault \in Faults(1) :
        LET req == Req("POST /jobs/hygiene", authorization, None)
            c   == db_conn(fault)
        IN  /\ IF ~check_key(authorization)
               THEN Rejected(req) /\ UNCHANGED <<tables, jobsRun>>
               ELSE IF c = "not_configured"
               THEN Misconfigured(req) /\ UNCHANGED <<tables, jobsRun>>
               ELSE IF c = "connect_failed"
               THEN Crashed(req, fault) /\ UNCHANGED <<tables, jobsRun>>
               ELSE /\ jobsRun < MaxJobs
                    /\ jobsRun' = jobsRun + 1
                    /\ market_state_daily' =
                          IF Committed(fault, 1) = 1
                          THEN UpsertRegime(market_state_daily, HygieneRow(Today))
                          ELSE market_state_daily
                    /\ IF fault = None
                       THEN Returned(req, [ok |-> TRUE, job |-> "hygiene"])
                       ELSE Crashed(req, fault)
                    /\ UNCHANGED <<score_daily, signal_4h, derivs_hourly>>
            /\ UNCHANGED <<config, now>>

\* LatestRegime as it would be with "order by asof" ascending.
OldestRegime(tbl) ==
    IF tbl = <<>> THEN None
    ELSE Some(CHOOSE r \in Range(tbl) : \A q \in Range(tbl) : r.asof <= q.asof)

\* select asof, regime, confidence from market_state_daily
\* order by asof desc limit 1; fetchone()
LatestRegime(tbl) ==
    IF tbl = <<>> THEN None
    ELSE Some(CHOOSE r \in Range(tbl) : \A q \in Range(tbl) : q.asof <= r.asof)

RegimeFallback == [date |-> "today", regime |-> "RISK_ON", confidence |-> Some(62)]

RegimeBody(tbl) ==
    LET row == LatestRegime(tbl)
    IN  IF row # None
        THEN [date |-> DateStr(Val(row).asof), regime |-> Val(row).regime,
              confidence |-> FloatOrNone(Val(row).confidence)]
        ELSE RegimeFallback

RegimeToday ==
    \E fault \in Faults(1) :
        LET req == Req("GET /regime/today", None, None)
            c   == db_conn(fault)
        IN  /\ IF c = "not_configured" THEN Misconfigured(req)
               ELSE IF fault # None THEN Crashed(req, fault)
               ELSE Returned(req, RegimeBody(market_state_daily))
            /\ UNCHANGED <<config, now, tables, jobsRun>>

----------------------------------------------------------------------------
\* POST /jobs/score and GET /scores/top10

\* top, with today's date: (symbol, score, rank, reasons).  The arrows of the
\* source's strings are spelled out in ASCII.
ScoreTop(today) ==
    << [asof |-> today, symbol |-> "SOLUSDT", score |-> Some(7840),
        rank |-> Some(1), reasons |-> Some(<<"RS strong", "positive basis">>)],
       [asof |-> today, symbol |-> "INJUSDT", score |-> Some(7510),
        rank |-> Some(2), reasons |-> Some(<<"OBV up", "VWAP reclaim">>)],
       [asof |-> today, symbol |-> "TIAUSDT", score |-> Some(7320),
        rank |-> Some(3), reasons |-> Some(<<"AVWAP reclaim">>)] >>

\* UpsertScore as it would be without the "on conflict" clause (and without
\* the key): a plain insert.
InsertScore(tbl, new) == Append(tbl, new)

\* insert into score_daily ... on conflict (asof, symbol) do update set ...
UpsertScore(tbl, new) ==
    IF \E i \in DOMAIN tbl : tbl[i].asof = new.asof /\ tbl[i].symbol = new.symbol
    THEN [i \in DOMAIN tbl |->
            IF tbl[i].asof = new.asof /\ tbl[i].symbol = new.symbol
            THEN [tbl[i] EXCEPT !.score = new.score,
                                !.reasons = new.reasons,
                                !.rank = new.rank]
            ELSE tbl[i]]
    ELSE Append(tbl, new)

\* The loop "for ... in top: cur.execute(...)", stopped after n statements.
RECURSIVE UpsertScores(_, _, _)
UpsertScores(tbl, rows, n) ==
    IF n = 0 THEN tbl
    ELSE UpsertScore(UpsertScores(tbl, rows, n - 1), rows[n])

JobScore ==
    \E authorization \in Headers, fault \in Faults(3) :
        LET req == Req("POST /jobs/score", authorization, None)
            c   == db_conn(fault)
            top == ScoreTop(Today)
        IN  /\ IF ~check_key(authorization)
               THEN Rejected(req) /\ UNCHANGED <<tables, jobsRun>>
               ELSE IF c = "not_configured"
               THEN Misconfigured(req) /\ UNCHANGED <<tables, jobsRun>>
               ELSE IF c = "connect_failed"
               THEN Crashed(req, fault) /\ UNCHANGED <<tables, jobsRun>>
               ELSE /\ jobsRun < MaxJobs
                    /\ jobsRun' = jobsRun + 1
                    /\ score_daily' =
                          UpsertScores(score_daily, top, Committed(fault, Len(top)))
                    /\ IF fault = None
                       THEN Returned(req, [ok |-> TRUE, job |-> "score",
                                           count |-> Len(top)])
                       ELSE Crashed(req, fault)
                    /\ UNCHANGED <<market_state_daily, signal_4h, derivs_hourly>>
            /\ UNCHANGED <<config, now>>

Top10Limit == 10

\* ScoreOrder as it would be with "s.score" ascending.
ScoreOrderScoreAscending(a, b) ==
    LET rankLess == /\ a.rank # None
                    /\ (b.rank = None \/ Val(a.rank) < Val(b.rank))
        rankSame == a.rank = b.rank
        scoreLt  == \/ a.score # None /\ b.score = None
                    \/ /\ a.score # None /\ b.score # None
                       /\ Val(a.score) < Val(b.score)
    IN  rankLess \/ (rankSame /\ scoreLt)

\* order by s.rank asc nulls last, s.score desc: whether row a sorts strictly
\* before row b.  In Postgres a descending key puts its NULLs first.
ScoreOrder(a, b) ==
    LET rankLess == /\ a.rank # None
                    /\ (b.rank = None \/ Val(a.rank) < Val(b.rank))
        rankSame == a.rank = b.rank
        scoreGt  == \/ a.score = None /\ b.score # None
                    \/ /\ a.score # None /\ b.score # None
                       /\ Val(a.score) > Val(b.score)
    IN  rankLess \/ (rankSame /\ scoreGt)

\* Rows that tie on both keys come out in an order SQL leaves open: in table
\* order, or in its reverse (tieRev).  i and j are positions in the table.
ScoreBefore(tbl, tieRev, i, j) ==
    \/ ScoreOrder(tbl[i], tbl[j])
    \/ /\ ~ScoreOrder(tbl[j], tbl[i])
       /\ IF tieRev THEN i > j ELSE i < j

\* The positions idx of the table in order: a position's place is the number
\* of positions that come before it.
SortScores(tbl, tieRev, idx) ==
    LET n     == Len(idx)
        ahead == SubSeq([p \in 1..n |->
                     Cardinality({q \in 1..n :
                         ScoreBefore(tbl, tieRev, idx[q], idx[p])})], 1, n)
    IN  SubSeq([p \in 1..n |->
                   idx[CHOOSE q \in 1..n : ahead[q] = p - 1]], 1, n)

\* The result of the top-10 query: the rows of the greatest asof, in order,
\* the first ten of them.
Top10Rows(tbl, tieRev) ==
    LET all    == [i \in DOMAIN tbl |-> i]
        latest == SelectSeq(all, LAMBDA i :
                      \A j \in DOMAIN tbl : tbl[j].asof <= tbl[i].asof)
        order  == SortScores(tbl, tieRev, latest)
    IN  Limit([p \in DOMAIN order |-> tbl[order[p]]], Top10Limit)

Top10Fallback ==
    [asof  |-> "today",
     items |-> << [symbol |-> "SOLUSDT", score |-> Some(7840),
                   why |-> <<"RS strong", "positive basis">>],
                  [symbol |-> "INJUSDT", score |-> Some(7510),
                   why |-> <<"OBV up", "VWAP reclaim">>] >>]

\* "reasons if reasons else []": NULL and the empty list both give [].
Why(reasons) == IF reasons = None \/ Val(reasons) = <<>> THEN <<>> ELSE Val(reasons)

Top10Body(rows) ==
    IF rows = <<>> THEN Top10Fallback
    ELSE [asof  |-> DateStr(rows[Len(rows)].asof),
          items |-> [p \in DOMAIN rows |->
                        [symbol |-> rows[p].symbol,
                         score  |-> FloatOrNone(rows[p].score),
                         rank   |-> rows[p].rank,
                         why    |-> Why(rows[p].reasons)]]]

ScoresTop10 ==
    \E fault \in Faults(1), tieRev \in BOOLEAN :
        LET req == Req("GET /scores/top10", None, None)
            c   == db_conn(fault)
        IN  /\ IF c = "not_configured" THEN Misconfigured(req)
               ELSE IF fault # None THEN Crashed(req, fault)
               ELSE Returned(req, Top10Body(Top10Rows(score_daily, tieRev)))
            /\ UNCHANGED <<config, now, tables, jobsRun>>

----------------------------------------------------------------------------
\* POST /jobs/trigger4h and GET /signals/recent

\* Whether the schema makes (ts, symbol) a unique key of signal_4h and of
\* derivs_hourly.  The inserts name no conflict target; the schema is not
\* part of the source, and the specification says no such key is enforced.
SignalKeyEnforced == FALSE

DerivsKeyEnforced == FALSE

\* The first of rows that a unique key on (ts, symbol) rejects, if any.
KeyConflict(enforced, held, rows) ==
    LET hit == {k \in DOMAIN rows :
                   \E r \in held : r.ts = rows[k].ts /\ r.symbol = rows[k].symbol}
    IN  IF enforced /\ hit # {}
        THEN Some(CHOOSE k \in hit : \A j \in hit : k <= j)
        ELSE None

\* The statement at which the handler stops: the earlier of the database
\* fault and the key conflict.
FirstFailure(fault, conflict) ==
    IF conflict = None THEN fault
    ELSE IF fault = None \/ Val(fault) > Val(conflict) THEN conflict
    ELSE fault

\* The columns of signal_4h that the insert leaves to the table: status, and
\* created_at, which records the order of creation.
SignalDefaults(tbl) == [status |-> None, created_at |-> Len(tbl) + 1]

\* sample: (ts, symbol, trigger, entry, stop, tp1, tp2, regime, score)
Trigger4hSample(ts) ==
    << [ts |-> Some(ts), symbol |-> "SOLUSDT", trigger |-> "sweep>CHoCH>retest",
        entry |-> Some(17820), stop |-> Some(16950), tp1 |-> Some(18900),
        tp2 |-> Some(19800), regime |-> "RISK_ON", score |-> Some(7840)],
       [ts |-> Some(ts), symbol |-> "INJUSDT", trigger |-> "AVWAP reclaim",
        entry |-> Some(3110), stop |-> Some(2890), tp1 |-> Some(3450),
        tp2 |-> Some(3700), regime |-> "RISK_ON", score |-> Some(7510)] >>

\* InsertSignal as it would be as an upsert on (ts, symbol).
UpsertSignal(tbl, new) ==
    IF \E i \in DOMAIN tbl : tbl[i].ts = new.ts /\ tbl[i].symbol = new.symbol
    THEN [i \in DOMAIN tbl |->
            IF tbl[i].ts = new.ts /\ tbl[i].symbol = new.symbol
            THEN [tbl[i] EXCEPT !.trigger = new.trigger, !.entry = new.entry,
                                !.stop = new.stop, !.tp1 = new.tp1,
                                !.tp2 = new.tp2, !.regime = new.regime,
                                !.score = new.score]
            ELSE tbl[i]]
    ELSE Append(tbl, [ts |-> new.ts, symbol |-> new.symbol,
                      trigger |-> new.trigger, entry |-> new.entry,
                      stop |-> new.stop, tp1 |-> new.tp1, tp2 |-> new.tp2,
                      regime |-> new.regime, score |-> new.score,
                      status |-> None, created_at |-> Len(tbl) + 1])

\* insert into signal_4h (...) values (...)
InsertSignal(tbl, new) ==
    LET d == SignalDefaults(tbl)
    IN  Append(tbl, [ts |-> new.ts, symbol |-> new.symbol,
                     trigger |-> new.trigger, entry |-> new.entry,
                     stop |-> new.stop, tp1 |-> new.tp1, tp2 |-> new.tp2,
                     regime |-> new.regime, score |-> new.score,
                     status |-> d.status, created_at |-> d.created_at])

RECURSIVE InsertSignals(_, _, _)
InsertSignals(tbl, rows, n) ==
    IF n = 0 THEN tbl
    ELSE InsertSignal(InsertSignals(tbl, rows, n - 1), rows[n])

JobTrigger4h ==
    \E authorization \in Headers, fault \in Faults(2) :
        LET req    == Req("POST /jobs/trigger4h", authorization, None)
            c      == db_conn(fault)
            sample == Trigger4hSample(Trigger4hNow)
            stop   == FirstFailure(fault,
                          KeyConflict(SignalKeyEnforced,
                              {[ts |-> r.ts, symbol |-> r.symbol] :
                                  r \in Range(signal_4h)}, sample))
        IN  /\ IF ~check_key(authorization)
               THEN Rejected(req) /\ UNCHANGED <<tables, jobsRun>>
               ELSE IF c = "not_configured"
               THEN Misconfigured(req) /\ UNCHANGED <<tables, jobsRun>>
               ELSE IF c = "connect_failed"
               THEN Crashed(req, fault) /\ UNCHANGED <<tables, jobsRun>>
               ELSE /\ jobsRun < MaxJobs
                    /\ jobsRun' = jobsRun + 1
                    /\ signal_4h' =
                          InsertSignals(signal_4h, sample,
                                        Committed(stop, Len(sample)))
                    /\ IF stop = None
                       THEN Returned(req, [ok |-> TRUE, job |-> "trigger4h",
                                           count |-> Len(sample)])
                       ELSE Crashed(req, stop)
                    /\ UNCHANGED <<market_state_daily, score_daily, derivs_hourly>>
            /\ UNCHANGED <<config, now>>

DefaultLimit == 50

\* SignalOrder as it would be without "nulls last": a descending key puts
\* its NULLs first.
SignalOrderNullsFirst(a, b) ==
    LET tsGt   == \/ a.ts = None /\ b.ts # None
                  \/ /\ a.ts # None /\ b.ts # None
                     /\ TsLess(Val(b.ts), Val(a.ts))
        tsSame == a.ts = b.ts
    IN  tsGt \/ (tsSame /\ a.created_at > b.created_at)

\* order by ts desc nulls last, created_at desc: whether row a sorts strictly
\* before row b.
SignalOrder(a, b) ==
    LET tsGt   == /\ a.ts # None
                  /\ (b.ts = None \/ TsLess(Val(b.ts), Val(a.ts)))
        tsSame == a.ts = b.ts
    IN  tsGt \/ (tsSame /\ a.created_at > b.created_at)

\* Rows that tie on both keys keep the order of the table.  i and j are
\* positions in the table.
SignalBefore(tbl, i, j) ==
    \/ SignalOrder(tbl[i], tbl[j])
    \/ /\ ~SignalOrder(tbl[j], tbl[i])
       /\ i < j

\* The rows of signal_4h in the order of the query: a row's place is the
\* number of rows that come before it.
SignalsOrdered(tbl) ==
    LET n     == Len(tbl)
        ahead == SubSeq([i \in 1..n |->
                     Cardinality({j \in 1..n : SignalBefore(tbl, j, i)})], 1, n)
        at    == SubSeq([p \in 1..n |->
                     CHOOSE i \in 1..n : ahead[i] = p - 1], 1, n)
    IN  SubSeq([p \in 1..n |-> tbl[at[p]]], 1, n)

SignalItem(r) ==
    [ts      |-> IF r.ts # None THEN Some(IsoFormat(Val(r.ts))) ELSE None,
     symbol  |-> r.symbol,
     trigger |-> r.trigger,
     entry   |-> FloatOrNone(r.entry),
     stop    |-> FloatOrNone(r.stop),
     tp1     |-> FloatOrNone(r.tp1),
     tp2     |-> FloatOrNone(r.tp2),
     regime  |-> r.regime,
     score   |-> FloatOrNone(r.score),
     status  |-> r.status]

SignalsBody(rows) == [items |-> [p \in DOMAIN rows |-> SignalItem(rows[p])]]

\* The limit query parameter of a request: absent, or an integer.
MaxLimit == 3

Limits == {None} \cup {Some(n) : n \in (-1)..MaxLimit}

\* Postgres rejects a negative LIMIT: the statement raises.
SignalsRecent ==
    \E fault \in Faults(1) :
        LET c       == db_conn(fault)
            ordered == SignalsOrdered(signal_4h)
        IN  /\ \E limit \in Limits :
                  LET req == Req("GET /signals/recent", None, limit)
                      n   == IF limit = None THEN DefaultLimit ELSE Val(limit)
                  IN  IF c = "not_configured" THEN Misconfigured(req)
                      ELSE IF fault # None THEN Crashed(req, fault)
                      ELSE IF n < 0 THEN Crashed(req, Some(1))
                      ELSE Returned(req, SignalsBody(Limit(ordered, n)))
            /\ UNCHANGED <<config, now, tables, jobsRun>>

----------------------------------------------------------------------------
\* POST /jobs/derivs

\* rows: (ts, symbol, oi_usd, oi_chg, funding, basis, liq_up, liq_dn, spot_leads)
DerivsRows(ts) ==
    << [ts |-> ts, symbol |-> "SOLUSDT", oi_usd |-> 980000000,
        oi_1h_chg |-> 25000000, funding_8h |-> 4, basis_pct |-> 35,
        liq_up_m |-> 1800, liq_dn_m |-> 2200, spot_leads |-> TRUE],
       [ts |-> ts, symbol |-> "INJUSDT", oi_usd |-> 210000000,
        oi_1h_chg |-> 6000000, funding_8h |-> 2, basis_pct |-> 20,
        liq_up_m |-> 550, liq_dn_m |-> 720, spot_leads |-> FALSE] >>

\* insert into derivs_hourly (...) values (...)
InsertDerivs(tbl, new) == Append(tbl, new)

RECURSIVE InsertDerivsRows(_, _, _)
InsertDerivsRows(tbl, rows, n) ==
    IF n = 0 THEN tbl
    ELSE InsertDerivs(InsertDerivsRows(tbl, rows, n - 1), rows[n])

JobDerivs ==
    \E authorization \in Headers, fault \in Faults(2) :
        LET req  == Req("POST /jobs/derivs", authorization, None)
            c    == db_conn(fault)
            rows == DerivsRows(DerivsNow)
            stop == FirstFailure(fault,
                        KeyConflict(DerivsKeyEnforced,
                            {[ts |-> r.ts, symbol |-> r.symbol] :
                                r \in Range(derivs_hourly)}, rows))
        IN  /\ IF ~check_key(authorization)
               THEN Rejected(req) /\ UNCHANGED <<tables, jobsRun>>
               ELSE IF c = "not_configured"
               THEN Misconfigured(req) /\ UNCHANGED <<tables, jobsRun>>
               ELSE IF c = "connect_failed"
               THEN Crashed(req, fault) /\ UNCHANGED <<tables, jobsRun>>
               ELSE /\ jobsRun < MaxJobs
                    /\ jobsRun' = jobsRun + 1
                    /\ derivs_hourly' =
                          InsertDerivsRows(derivs_hourly, rows,
                                           Committed(stop, Len(rows)))
                    /\ IF stop = None
                       THEN Returned(req, [ok |-> TRUE, job |-> "derivs",
                                           count |-> Len(rows)])
                       ELSE Crashed(req, stop)
                    /\ UNCHANGED <<market_state_daily, score_daily, signal_4h>>
            /\ UNCHANGED <<config, now>>

----------------------------------------------------------------------------
\* POST /alerts/test

AlertsTest ==
    \E authorization \in Headers :
        LET req == Req("POST /alerts/test", authorization, None)
        IN  /\ IF ~check_key(authorization)
               THEN Rejected(req)
               ELSE resp' = Reply(req, 200, [ok |-> TRUE, sent |-> TRUE],
                                  FALSE, None)
            /\ UNCHANGED <<config, now, tables, jobsRun>>

----------------------------------------------------------------------------
\* The clock moves on to its next sampled instant.

Tick ==
    \E i \in 1..(MaxTick - 1) :
        /\ now = Instant(i)
        /\ now' = Instant(i + 1)
        /\ UNCHANGED <<config, tables, resp, jobsRun>>

\* The response reaches the client, and the service waits for a request.
Deliver ==
    /\ resp # NoResp
    /\ resp' = NoResp
    /\ UNCHANGED <<config, now, tables, jobsRun>>

\* Requests are handled one at a time.
Ready == resp = NoResp

----------------------------------------------------------------------------
\* The process starts with its configuration read from the environment.

Configs ==
    /\ API_KEY \in {None, Some("k1")}
    /\ DB_URL \in {None, Some(""), Some("postgresql://db/ascentpulse")}

\* A fresh deployment: the four tables are empty.
Init ==
    /\ Configs
    /\ now = Instant(1)
    /\ market_state_daily = <<>>
    /\ score_daily = <<>>
    /\ signal_4h = <<>>
    /\ derivs_hourly = <<>>
    /\ resp = NoResp
    /\ jobsRun = 0

\* A deployment in front of a database that already holds rows, written by
\* earlier runs or by hand.  Seed k gives the four tables; the rows respect
\* the keys the upserts rely on, (asof) and (asof, symbol).

\* Snapshots of days 1, 0, 3, 2, ..., none with the values of the hygiene job.
SeedRegimeRow(i) ==
    LET d == IF i % 2 = 1 THEN i ELSE i - 2
    IN  [asof |-> d, btc_trend |-> "DOWN", eth_trend |-> "FLAT",
         breadth_pct |-> 4000 + d, stables_flow_pct |-> 10,
         regime |-> "RISK_OFF",
         confidence |-> IF i % 3 = 0 THEN None ELSE Some(40 + d)]

\* Scores of days 1 and 2: ranks and scores repeat and may be NULL, the
\* first two symbols are symbols of the score job.
SeedScoreRow(i) ==
    [asof    |-> IF i % 5 = 0 THEN 1 ELSE 2,
     symbol  |-> IF i = 1 THEN "SOLUSDT"
                 ELSE IF i = 2 THEN "INJUSDT" ELSE "SYM" \o Pad2(i),
     score   |-> IF i % 6 = 0 THEN None ELSE Some(7000 + 100 * (i % 4)),
     rank    |-> IF i % 4 = 0 THEN None ELSE Some(1 + (i % 3)),
     reasons |-> IF i % 3 = 0 THEN None
                 ELSE IF i % 3 = 1 THEN Some(<<>>) ELSE Some(<<"seeded">>)]

\* Signals whose timestamps repeat, are not in the order of creation, and may
\* be NULL.
SeedSignalRow(i) ==
    [ts |-> IF i % 3 = 0 THEN None
            ELSE Some([day |-> (i * 2) % 3, hour |-> 9, minute |-> 5,
                       second |-> 7, micro |-> 0]),
     symbol |-> "SYM" \o Pad2(i % 4), trigger |-> "seeded",
     entry |-> Some(100 * i), stop |-> None, tp1 |-> Some(110 * i),
     tp2 |-> None, regime |-> "RISK_OFF", score |-> None,
     status |-> IF i % 2 = 0 THEN Some("open") ELSE None,
     created_at |-> i]

\* Seed 1 is the empty database.  An even seed is a large one: more scores
\* of one day than the top-10 query returns, more signals than the default
\* limit.  The other seeds are small.
SeedSize(k) ==
    IF k = 1 THEN [regimes |-> 0, scores |-> 0, signals |-> 0]
    ELSE IF k % 2 = 0
    THEN [regimes |-> 3, scores |-> Top10Limit + 5, signals |-> DefaultLimit + 2]
    ELSE [regimes |-> 2, scores |-> 4, signals |-> 4]

Seed(k) ==
    [market_state_daily |-> [i \in 1..SeedSize(k).regimes |-> SeedRegimeRow(i)],
     score_daily        |-> [i \in 1..SeedSize(k).scores |-> SeedScoreRow(i)],
     signal_4h          |-> [i \in 1..SeedSize(k).signals |-> SeedSignalRow(i)],
     derivs_hourly      |-> <<>>]

\* The seeded deployments are configured ones: a key and a database.  The
\* rows they start with stand for earlier job runs, so one job run fewer is
\* followed from them than from the empty database of Init.
InitSeeded ==
    /\ API_KEY = Some("k1")
    /\ DB_URL = Some("postgresql://db/ascentpulse")
    /\ now = Instant(1)
    /\ \E k \in 1..NumSeeds :
          /\ market_state_daily = Seed(k).market_state_daily
          /\ score_daily = Seed(k).score_daily
          /\ signal_4h = Seed(k).signal_4h
          /\ derivs_hourly = Seed(k).derivs_hourly
    /\ resp = NoResp
    /\ jobsRun = 1

Next ==
    \/ Ready /\ Root
    \/ Ready /\ Health
    \/ Ready /\ RegimeToday
    \/ Ready /\ ScoresTop10
    \/ Ready /\ SignalsRecent
    \/ Ready /\ JobHygiene
    \/ Ready /\ JobScore
    \/ Ready /\ JobTrigger4h
    \/ Ready /\ JobDerivs
    \/ Ready /\ AlertsTest
    \/ Ready /\ Tick
    \/ Deliver

Spec == Init /\ [][Next]_vars

SpecSeeded == InitSeeded /\ [][Next]_vars

----------------------------------------------------------------------------
\* What the properties below say of a request and of the configuration, in
\* their own words.

Gated ==
    {"POST /jobs/hygiene", "POST /jobs/score", "POST /jobs/trigger4h",
     "POST /jobs/derivs", "POST /alerts/test"}

\* The last exchange was a request to endpoint e.
Asked(e) == resp.req.endpoint = e

\* The header is exactly "Bearer <API_KEY>", or no key is configured.
GateOpen(auth) ==
    \/ API_KEY = None
    \/ auth # None /\ Val(auth) = "Bearer " \o Val(API_KEY)

\* DATABASE_URL is configured.
DbConfigured == DB_URL # None /\ Val(DB_URL) # ""

IsPrefix(a, b) == Len(a) <= Len(b) /\ SubSeq(b, 1, Len(a)) = a

----------------------------------------------------------------------------
\* C1 as stated: on a gated endpoint the request succeeds when API_KEY is
\* unset, whatever the header, and when the header is exactly
\* "Bearer <API_KEY>"; any other header is answered 401.
C1_GateAloneDecidesSuccess ==
    resp.req.endpoint \in Gated =>
        IF GateOpen(resp.req.authorization)
        THEN resp.status = 200
        ELSE resp.status = 401

\* C1, amended: on a gated endpoint a request is answered 401 exactly when
\* API_KEY is set and the header is not exactly "Bearer <API_KEY>" (an absent
\* header included); a request that passes the gate succeeds exactly when its
\* database work does: always on /alerts/test, and on a job unless
\* DATABASE_URL is not configured or the connect or a statement fails (500).
C1_GateThenDatabase ==
    resp.req.endpoint \in Gated =>
        IF GateOpen(resp.req.authorization)
        THEN /\ resp.status # 401
             /\ resp.status = 200 <=>
                   \/ Asked("POST /alerts/test")
                   \/ DbConfigured /\ resp.fault = None
             /\ resp.status \in {200, 500}
        ELSE resp.status = 401

\* C1 witness: with a key configured, a job asked with exactly
\* "Bearer <API_KEY>" has succeeded.
C1_Witness ==
    /\ Asked("POST /jobs/score")
    /\ API_KEY = Some("k1")
    /\ resp.req.authorization = Some("Bearer k1")
    /\ resp.status = 200

----------------------------------------------------------------------------
\* C6: GET /health always answers 200 with status "healthy"; db is true when
\* the "select 1" round trip succeeds, and false when DATABASE_URL is not
\* configured, the connect fails or the query fails.
C6_HealthNeverFails ==
    Asked("GET /health") =>
        /\ resp.status = 200
        /\ resp.body.status = "healthy"
        /\ resp.body.db = (DbConfigured /\ resp.fault = None)

\* C6 witness: /health has answered db false, not an error, with no
\* DATABASE_URL.
C6_Witness ==
    /\ Asked("GET /health")
    /\ DB_URL = None
    /\ resp.status = 200
    /\ resp.body.db = FALSE

----------------------------------------------------------------------------
\* C7: GET /regime/today, when it answers, returns the fixed fallback if
\* market_state_daily is empty, and otherwise the date, regime and confidence
\* of the row of the greatest date, never the fallback.
C7_RegimeToday ==
    (Asked("GET /regime/today") /\ resp.status = 200) =>
        IF market_state_daily = <<>>
        THEN resp.body = [date |-> "today", regime |-> "RISK_ON",
                          confidence |-> Some(62)]
        ELSE /\ \E r \in Range(market_state_daily) :
                   /\ \A q \in Range(market_state_daily) : q.asof <= r.asof
                   /\ resp.body = [date |-> DateStr(r.asof), regime |-> r.regime,
                                   confidence |-> r.confidence]
             /\ resp.body.date # "today"

\* C7 witness: the endpoint has answered from a table of several rows whose
\* first row is not the latest.
C7_Witness ==
    /\ Asked("GET /regime/today")
    /\ resp.status = 200
    /\ Len(market_state_daily) >= 2
    /\ \E i \in 2..Len(market_state_daily) :
          market_state_daily[1].asof < market_state_daily[i].asof

----------------------------------------------------------------------------
\* A step in which a request to endpoint e is handled and answered status.
Handled(e, status) ==
    /\ resp = NoResp
    /\ resp'.req.endpoint = e
    /\ resp'.status = status

\* What one successful hygiene job does to market_state_daily.
C2_Step ==
    Handled("POST /jobs/hygiene", 200) =>
        /\ Cardinality({i \in DOMAIN market_state_daily' :
                           market_state_daily'[i].asof = Today}) = 1
        /\ \A i \in DOMAIN market_state_daily' :
              market_state_daily'[i].asof = Today =>
                  market_state_daily'[i] =
                      [asof |-> Today, btc_trend |-> "UP", eth_trend |-> "UP",
                       breadth_pct |-> 6200, stables_flow_pct |-> -40,
                       regime |-> "RISK_ON", confidence |-> Some(63)]
        /\ {r \in Range(market_state_daily') : r.asof # Today}
              = {r \in Range(market_state_daily) : r.asof # Today}

\* C2: however often POST /jobs/hygiene is called, market_state_daily never
\* holds two rows of one date; after a call that succeeds it holds exactly one
\* row of the current date, with the values of that call in place of any
\* earlier ones, and the rows of the other dates are as they were.
C2_HygieneUpsert ==
    /\ [](\A i, j \in DOMAIN market_state_daily :
             market_state_daily[i].asof = market_state_daily[j].asof => i = j)
    /\ [][C2_Step]_vars

\* C2 witness: a hygiene job has succeeded on a database that held rows and
\* no other table has changed; the row of the current date, which held other
\* values, holds the values of the job, and the other rows are as they were.
C2_Witness ==
    /\ Asked("POST /jobs/hygiene")
    /\ resp.status = 200
    /\ jobsRun = 2
    /\ score_daily = Seed(2).score_daily
    /\ signal_4h = Seed(2).signal_4h
    /\ derivs_hourly = <<>>
    /\ Len(market_state_daily) = 3
    /\ market_state_daily[1].asof = Today
    /\ market_state_daily[1].regime = "RISK_ON"
    /\ market_state_daily[2] = Seed(2).market_state_daily[2]
    /\ market_state_daily[3] = Seed(2).market_state_daily[3]

----------------------------------------------------------------------------
\* The symbols and ranks of the rows of date d in score_daily.
ScoredOn(tbl, d) ==
    {[symbol |-> tbl[i].symbol, rank |-> tbl[i].rank] :
        i \in {j \in DOMAIN tbl : tbl[j].asof = d}}

ThreeScores ==
    {[symbol |-> "SOLUSDT", rank |-> Some(1)],
     [symbol |-> "INJUSDT", rank |-> Some(2)],
     [symbol |-> "TIAUSDT", rank |-> Some(3)]}

\* After a score job that succeeds: count 3, and three rows of the date.
C3_State ==
    /\ \A i, j \in DOMAIN score_daily :
          (/\ score_daily[i].asof = score_daily[j].asof
           /\ score_daily[i].symbol = score_daily[j].symbol) => i = j
    /\ (Asked("POST /jobs/score") /\ resp.status = 200) =>
          /\ resp.body.count = 3
          /\ Cardinality({i \in DOMAIN score_daily :
                             score_daily[i].asof = Today}) = 3
          /\ ScoredOn(score_daily, Today) = ThreeScores

\* Three rows of a date stay the three rows of that date.
C3_Step ==
    \A d \in {score_daily[i].asof : i \in DOMAIN score_daily} :
        (/\ ScoredOn(score_daily, d) = ThreeScores
         /\ Cardinality({i \in DOMAIN score_daily : score_daily[i].asof = d}) = 3)
        => /\ ScoredOn(score_daily', d) = ThreeScores
           /\ Cardinality({i \in DOMAIN score_daily' :
                              score_daily'[i].asof = d}) = 3

\* C3: a POST /jobs/score that succeeds returns count 3 and leaves exactly
\* three rows of the current date in score_daily, SOLUSDT rank 1, INJUSDT rank
\* 2 and TIAUSDT rank 3, one per (date, symbol); whatever jobs follow, on that
\* date or later, the date keeps exactly these three rows.  (The score job is
\* the only writer of the table.)
C3_ScoreJob == []C3_State /\ [][C3_Step]_vars

\* C3 witness: the second of two score jobs of one date has succeeded, and
\* the table holds three rows.
C3_Witness ==
    /\ Asked("POST /jobs/score")
    /\ resp.status = 200
    /\ jobsRun = 2
    /\ Len(score_daily) = 3
    /\ market_state_daily = <<>>
    /\ signal_4h = <<>>
    /\ derivs_hourly = <<>>

----------------------------------------------------------------------------
\* Newest first: row a comes before row b when a has a timestamp and b has
\* none or an earlier one, or, the timestamps being the same, when a was
\* created later.
NewerFirst(a, b) ==
    \/ a.ts # None /\ b.ts = None
    \/ a.ts # None /\ b.ts # None /\ TsLess(Val(b.ts), Val(a.ts))
    \/ a.ts = b.ts /\ a.created_at > b.created_at

\* C4: GET /signals/recent, when it answers, returns exactly min(n, number of
\* rows of signal_4h) items, n being the limit of the request or 50 when there
\* is none: the first so many rows of the table taken newest first (rows
\* without a timestamp last, equal timestamps in the reverse of the order of
\* creation); the list is empty when the table is.
C4_SignalsRecent ==
    (Asked("GET /signals/recent") /\ resp.status = 200) =>
        LET n     == IF resp.req.limit = None THEN 50 ELSE Val(resp.req.limit)
            k     == IF n < Len(signal_4h) THEN n ELSE Len(signal_4h)
            rows  == SignalsOrdered(signal_4h)
            items == resp.body.items
        IN  /\ Len(items) = k
            /\ signal_4h = <<>> => items = <<>>
            /\ Len(rows) = Len(signal_4h)
            /\ Range(rows) = Range(signal_4h)
            /\ \A p \in 1..(Len(rows) - 1) : NewerFirst(rows[p], rows[p + 1])
            /\ \A p \in 1..k :
                  /\ items[p].symbol = rows[p].symbol
                  /\ items[p].trigger = rows[p].trigger
                  /\ items[p].entry = rows[p].entry
                  /\ items[p].ts = IF rows[p].ts = None THEN None
                                   ELSE Some(IsoFormat(Val(rows[p].ts)))

\* C4 witness: the endpoint has answered a request without a limit with 50
\* items from a table of more rows, one of them without a timestamp.
C4_Witness ==
    /\ Asked("GET /signals/recent")
    /\ resp.status = 200
    /\ resp.req.limit = None
    /\ Len(resp.body.items) = 50
    /\ Len(signal_4h) > 50
    /\ \E i \in DOMAIN signal_4h : signal_4h[i].ts = None

----------------------------------------------------------------------------
\* By rank ascending, rows without a rank last, then by score descending:
\* whether row a must come before row b.
RankThenScore(a, b) ==
    \/ a.rank # None /\ b.rank = None
    \/ a.rank # None /\ b.rank # None /\ Val(a.rank) < Val(b.rank)
    \/ /\ a.rank = b.rank
       /\ a.score # None /\ b.score # None /\ Val(a.score) > Val(b.score)

\* C5: GET /scores/top10, when it answers, returns the two fixed demo entries
\* if score_daily is empty, and only then; otherwise min(10, number of rows
\* of the greatest date) items, each the symbol, score, rank and reasons of a
\* row of that date, no row twice, by rank ascending (rows without a rank
\* last) then score descending, and no row left out comes before one
\* returned.
C5_ScoresTop10 ==
    (Asked("GET /scores/top10") /\ resp.status = 200) =>
        IF score_daily = <<>>
        THEN resp.body =
                [asof  |-> "today",
                 items |-> << [symbol |-> "SOLUSDT", score |-> Some(7840),
                               why |-> <<"RS strong", "positive basis">>],
                              [symbol |-> "INJUSDT", score |-> Some(7510),
                               why |-> <<"OBV up", "VWAP reclaim">>] >>]
        ELSE LET dates  == {r.asof : r \in Range(score_daily)}
                 maxd   == CHOOSE d \in dates : \A e \in dates : e <= d
                 latest == {r \in Range(score_daily) : r.asof = maxd}
                 items  == resp.body.items
                 row(p) == CHOOSE r \in latest : r.symbol = items[p].symbol
                 count  == IF Cardinality(latest) < 10
                           THEN Cardinality(latest) ELSE 10
             IN  /\ resp.body.asof = DateStr(maxd)
                 /\ resp.body.asof # "today"
                 /\ Len(items) = count
                 /\ Len(items) <= 10
                 /\ \A p \in DOMAIN items :
                       /\ \E r \in latest : r.symbol = items[p].symbol
                       /\ items[p].score = row(p).score
                       /\ items[p].rank = row(p).rank
                       /\ items[p].why = IF row(p).reasons = None THEN <<>>
                                         ELSE Val(row(p).reasons)
                 /\ \A p, q \in DOMAIN items :
                       items[p].symbol = items[q].symbol => p = q
                 /\ \A p \in 1..(Len(items) - 1) :
                       ~RankThenScore(row(p + 1), row(p))
                 /\ \A r \in latest :
                       (\A p \in DOMAIN items : items[p].symbol # r.symbol)
                           => ~RankThenScore(r, row(Len(items)))

\* C5 witness: the endpoint has answered ten items from more than ten rows of
\* the latest date, the last item without a rank, while rows of an earlier
\* date exist.
C5_Witness ==
    /\ Asked("GET /scores/top10")
    /\ resp.status = 200
    /\ Len(resp.body.items) = 10
    /\ resp.body.items[10].rank = None
    /\ \E r, q \in Range(score_daily) : r.asof < q.asof
    /\ Cardinality({i \in DOMAIN score_daily :
                       \A j \in DOMAIN score_daily :
                           score_daily[j].asof <= score_daily[i].asof}) > 10

----------------------------------------------------------------------------
\* The symbols of the rows of tbl after its first n rows.
AddedSymbols(tbl, n) == [p \in 1..(Len(tbl) - n) |-> tbl[n + p].symbol]

\* What a step does to signal_4h and derivs_hourly.
C8_Step ==
    /\ IsPrefix(signal_4h, signal_4h')
    /\ IsPrefix(derivs_hourly, derivs_hourly')
    /\ Handled("POST /jobs/trigger4h", 200) =>
          /\ Len(signal_4h') = Len(signal_4h) + 2
          /\ AddedSymbols(signal_4h', Len(signal_4h)) = <<"SOLUSDT", "INJUSDT">>
          /\ \A i \in (Len(signal_4h) + 1)..Len(signal_4h') :
                signal_4h'[i].ts = Some([now EXCEPT !.micro = 0])
    /\ Handled("POST /jobs/derivs", 200) =>
          /\ Len(derivs_hourly') = Len(derivs_hourly) + 2
          /\ AddedSymbols(derivs_hourly', Len(derivs_hourly))
                = <<"SOLUSDT", "INJUSDT">>
          /\ \A i \in (Len(derivs_hourly) + 1)..Len(derivs_hourly') :
                derivs_hourly'[i].ts =
                    [now EXCEPT !.minute = 10, !.second = 0, !.micro = 0]

\* C8: no step changes or removes a row of signal_4h or of derivs_hourly;
\* every POST /jobs/trigger4h that succeeds adds exactly two rows to
\* signal_4h, stamped with the current time less its microseconds, and every
\* POST /jobs/derivs that succeeds adds exactly two rows to derivs_hourly,
\* stamped with the current hour at :10, whether or not the table already
\* holds rows of the same (timestamp, symbol).
C8_AppendOnly == [][C8_Step]_vars

\* C8 witness: a second trigger job of the same second has succeeded, and
\* signal_4h holds two rows of the same (timestamp, symbol).
C8_Witness ==
    /\ Asked("POST /jobs/trigger4h")
    /\ resp.status = 200
    /\ Len(signal_4h) = 4
    /\ signal_4h[1].ts = signal_4h[3].ts
    /\ signal_4h[1].symbol = signal_4h[3].symbol

----------------------------------------------------------------------------
\* The rows of a job, in the order it writes them.
JobSymbols(e) ==
    IF e = "POST /jobs/score" THEN <<"SOLUSDT", "INJUSDT", "TIAUSDT">>
    ELSE <<"SOLUSDT", "INJUSDT">>

\* What a multi-row job whose k-th insert fails leaves behind.
C9_Step ==
    \A e \in {"POST /jobs/score", "POST /jobs/trigger4h", "POST /jobs/derivs"} :
        (/\ resp = NoResp
         /\ resp'.req.endpoint = e
         /\ resp'.fault # None
         /\ resp'.fault # Some(0)) =>
            LET k       == Val(resp'.fault)
                written == SubSeq(JobSymbols(e), 1, k - 1)
            IN  /\ resp'.status = 500
                /\ e = "POST /jobs/trigger4h" =>
                      /\ IsPrefix(signal_4h, signal_4h')
                      /\ AddedSymbols(signal_4h', Len(signal_4h)) = written
                /\ e = "POST /jobs/derivs" =>
                      /\ IsPrefix(derivs_hourly, derivs_hourly')
                      /\ AddedSymbols(derivs_hourly', Len(derivs_hourly)) = written
                /\ e = "POST /jobs/score" =>
                      /\ \A p \in 1..(k - 1) :
                            \E r \in Range(score_daily') :
                                /\ r.asof = Today
                                /\ r.symbol = written[p]
                                /\ r.rank = Some(p)
                      /\ {r \in Range(score_daily') :
                             ~(r.asof = Today /\ r.symbol \in Range(written))}
                           = {r \in Range(score_daily) :
                                 ~(r.asof = Today /\ r.symbol \in Range(written))}

\* C9: when the k-th insert of a score, trigger4h or derivs job fails, the
\* request is answered 500, the first k - 1 rows of the job are written and
\* stay written, and the rows from the k-th on are not written: every other
\* row of the table is as it was.
C9_PartialWrites == [][C9_Step]_vars

\* C9 witness: the third insert of a score job has failed; the request was
\* answered 500 and the table holds the first two rows of the job.
C9_Witness ==
    /\ Asked("POST /jobs/score")
    /\ resp.status = 500
    /\ resp.fault = Some(3)
    /\ ScoredOn(score_daily, Today) =
          {[symbol |-> "SOLUSDT", rank |-> Some(1)],
           [symbol |-> "INJUSDT", rank |-> Some(2)]}

----------------------------------------------------------------------------
\* What the handling of a request does before and besides its own work.
C10_Step ==
    (resp = NoResp /\ resp' # NoResp) =>
        /\ (/\ resp'.req.endpoint \in Gated
            /\ ~GateOpen(resp'.req.authorization)) => resp'.status = 401
        /\ resp'.status = 401 =>
              /\ ~resp'.opened
              /\ tables' = tables
        /\ resp'.req.endpoint \notin Gated =>
              /\ resp'.status # 401
              /\ tables' = tables

\* C10: a request to a gated endpoint whose header does not pass the key
\* check is answered 401, also when DATABASE_URL is not configured; a request
\* answered 401 has opened no connection and has left the four tables as they
\* were; the other endpoints never answer 401 and never change a table.
C10_GateBeforeDatabase == [][C10_Step]_vars

\* C10 witness: with no DATABASE_URL, a job request with a wrong key has been
\* answered 401, not 500.
C10_Witness ==
    /\ Asked("POST /jobs/hygiene")
    /\ DB_URL = None
    /\ API_KEY = Some("k1")
    /\ resp.req.authorization = Some("Bearer k2")
    /\ resp.status = 401

====
